---- MODULE Spec2Model ----
(***************************************************************************)
(* Model of src/segment.rs: the Segment tagged union (Text, Fill,          *)
(* Separator, LineTerm), its constructors, the one-shot style backfill,    *)
(* the separator style derivation and the fill-segment cycling scan.       *)
(*                                                                         *)
(* Strings are sequences of characters (one-character TLA+ strings).       *)
(* Option<T> is a sequence of length at most one: None is << >> and        *)
(* Some(v) is <<v>>.                                                       *)
(***************************************************************************)
EXTENDS Integers, Sequences, FiniteSets, TLC

VARIABLES
    seg,    \* the segment under operation (SpecFill, Spec)
    raw,    \* the string handed to the constructor
    segs,   \* the Vec<Segment> returned by Segment::from_text (SpecText)
    pc,     \* position of the running call
    width,  \* FillSegment::ansi_string: the `width` argument
    prev,   \* ansi_string: the `prev` argument
    it,     \* FillSegment::ansi_string: position of the Cycle iterator
    len,    \* FillSegment::ansi_string: the scan state `len`
    s,      \* FillSegment::ansi_string: the String being collected
    ret,    \* value returned by the last call
    op      \* the last operation called and its arguments

vars == <<seg, raw, segs, pc, width, prev, it, len, s, ret, op>>

----------------------------------------------------------------------------
(* Bounds of the model *)

\* longest fill pattern, in characters
MaxLen == 3
\* largest target width handed to FillSegment::ansi_string
MaxW == 4
\* longest text handed to Segment::from_text / Segment::separator
MaxRaw == 4

\* Capacity of the collected String, in characters.  A scan that stops for a
\* width w <= MaxW over a pattern of at most MaxLen characters collects fewer
\* than (MaxW + 1) * MaxLen characters, so only a scan that never stops can
\* exhaust it.
MemCap == (MaxW + 1) * MaxLen + 1

----------------------------------------------------------------------------
(* Option *)

None == << >>
Some(v) == <<v>>
IsSome(o) == Len(o) = 1
IsNone(o) == Len(o) = 0
Unwrap(o) == o[1]

----------------------------------------------------------------------------
(* Strings *)

SeqsUpTo(A, n) == UNION {[1..k -> A] : k \in 0..n}

RECURSIVE Flatten(_)
Flatten(ss) == IF ss = << >> THEN << >> ELSE Head(ss) \o Flatten(Tail(ss))

Max(a, b) == IF a >= b THEN a ELSE b

LINE_TERMINATOR == "\n"
LINE_TERMINATOR_STRING == <<"\n">>

----------------------------------------------------------------------------
(* Grapheme clusters and display width (crate::print, unicode_segmentation) *)

\* "." is a narrow glyph (one column), "W" a wide glyph (two columns), "z" a
\* zero-width character forming a cluster of its own (ZERO WIDTH SPACE),
\* "^" a combining mark, which extends the preceding cluster.
FillChars == {".", "W", "z", "^"}

\* UnicodeWidthChar::width, with None read as 0
CharWidth(c) ==
    CASE c = "W" -> 2
      [] c \in {"z", "^", "\n"} -> 0
      [] OTHER -> 1

IsExtend(c) == c = "^"

\* str::graphemes(true): the extended grapheme clusters of a string, in order
RECURSIVE GraphemesFrom(_, _, _)
GraphemesFrom(str, i, acc) ==
    IF i > Len(str) THEN acc
    ELSE IF IsExtend(str[i]) /\ acc # << >>
         THEN GraphemesFrom(str, i + 1,
                  [acc EXCEPT ![Len(acc)] = Append(acc[Len(acc)], str[i])])
         ELSE GraphemesFrom(str, i + 1, Append(acc, <<str[i]>>))

Graphemes(str) == GraphemesFrom(str, 1, << >>)

\* Grapheme::width: the widest character of the cluster
RECURSIVE GraphemeWidth(_)
GraphemeWidth(g) ==
    IF g = << >> THEN 0 ELSE Max(CharWidth(Head(g)), GraphemeWidth(Tail(g)))

\* UnicodeWidthGraphemes::width_graphemes: the sum over the clusters
RECURSIVE SumWidths(_)
SumWidths(gs) ==
    IF gs = << >> THEN 0 ELSE GraphemeWidth(Head(gs)) + SumWidths(Tail(gs))

StrWidthGraphemes(str) == SumWidths(Graphemes(str))

----------------------------------------------------------------------------
(* Styles (nu_ansi_term::Style and crate::config::Style) *)

Colors == {"Red", "Blue"}
OptColor == {None} \cup {Some(c) : c \in Colors}

\* nu_ansi_term::Style, with is_bold standing for the attribute flags
AnsiStyles == [foreground : OptColor, background : OptColor, is_bold : BOOLEAN]

\* AnsiStyle::default()
AnsiDefault == [foreground |-> None, background |-> None, is_bold |-> FALSE]

OptAnsi == {None} \cup {Some(a) : a \in AnsiStyles}

\* config::Style: an ansi style (style) whose colours may instead refer to the
\* previous segment's foreground or background (fg, bg: None, Some("Fg") or
\* Some("Bg"))

\* impl From<AnsiStyle> for Style
StyleFromAnsi(a) == [style |-> a, fg |-> None, bg |-> None]

\* Style::to_ansi_style(prev)
ToAnsiStyle(st, p) ==
    IF IsNone(p) THEN st.style
    ELSE LET pv == Unwrap(p)
             pick(which) == IF which = "Fg" THEN pv.foreground ELSE pv.background
             bg == IF IsSome(st.bg) THEN pick(Unwrap(st.bg)) ELSE st.style.background
             fg == IF IsSome(st.fg) THEN pick(Unwrap(st.fg)) ELSE st.style.foreground
         IN  [st.style EXCEPT !.background = bg, !.foreground = fg]

\* AnsiStyle::paint and AnsiString::from
Paint(a, text) == [style |-> a, text |-> text]
AnsiStringFrom(text) == [style |-> AnsiDefault, text |-> text]

\* The styles the callers of the model hand in
BlueBold == [foreground |-> Some("Blue"), background |-> None, is_bold |-> TRUE]
RedOnBlue == [foreground |-> Some("Red"), background |-> Some("Blue"), is_bold |-> FALSE]
StyleInputs ==
    { StyleFromAnsi(BlueBold),
      StyleFromAnsi(RedOnBlue),
      [style |-> AnsiDefault, fg |-> Some("Bg"), bg |-> None] }
OptStyleInputs == {None} \cup {Some(x) : x \in StyleInputs}
PrevInputs == {None, Some(RedOnBlue)}

----------------------------------------------------------------------------
(* Segments *)

TextSegment(style, value) == [kind |-> "Text", style |-> style, value |-> value]
FillSegment(style, value) == [kind |-> "Fill", style |-> style, value |-> value]
SeparatorSegment(style, value, left) ==
    [kind |-> "Separator", style |-> style, value |-> value, left |-> left]
LineTerm == [kind |-> "LineTerm"]

\* Segment::fill
Fill(style, value) == FillSegment(style, value)

----------------------------------------------------------------------------
(* FillSegment::ansi_string *)

\* the tail of every ansi_string: paint the text with the segment's own style
Styled(sg, text, p) ==
    IF IsSome(sg.style) THEN Paint(ToAnsiStyle(Unwrap(sg.style), p), text)
    ELSE AnsiStringFrom(text)

\* Cycle::next over value.graphemes(true): None for an empty pattern, else the
\* cluster at the iterator's position, restarting after the last one
CycleHasNext(gs) == gs # << >>
CyclePos(gs, i) == IF i > Len(gs) THEN 1 ELSE i
CycleItem(gs, i) == gs[CyclePos(gs, i)]

\* the scan closure: *len += Grapheme(g).width()
ScanLen(l, g) == l + GraphemeWidth(g)
\* mutant: the bound compared strictly
ScanKeeps_Strict(l, w) == l < w

\* if *len <= w { Some(g) } else { None }
ScanKeeps(l, w) == l <= w

NoCall == [name |-> "none"]

InitFill ==
    /\ raw \in SeqsUpTo(FillChars, MaxLen)
    /\ seg \in {Fill(st, raw) : st \in OptStyleInputs}
    /\ segs = << >>
    /\ pc = "idle"
    /\ width = None
    /\ prev = None
    /\ it = 1
    /\ len = 0
    /\ s = << >>
    /\ ret = None
    /\ op = NoCall

\* ansi_string(None, prev): the pattern verbatim
FillVerbatim ==
    /\ pc = "idle"
    /\ \E p \in PrevInputs :
          /\ prev' = p
          /\ ret' = Some(Styled(seg, seg.value, p))
    /\ width' = None
    /\ s' = seg.value
    /\ pc' = "done"
    /\ op' = [name |-> "ansi_string"]
    /\ UNCHANGED <<seg, raw, segs, it, len>>

\* ansi_string(Some(w), prev): entry, the scan starts with len = 0
FillBegin ==
    /\ pc = "idle"
    /\ \E w \in 0..MaxW, p \in PrevInputs :
          /\ width' = Some(w)
          /\ prev' = p
    /\ it' = 1
    /\ len' = 0
    /\ s' = << >>
    /\ pc' = "scan"
    /\ op' = [name |-> "ansi_string"]
    /\ UNCHANGED <<seg, raw, segs, ret>>

\* one cluster of the cycle passes the scan and is collected
FillTake ==
    /\ pc = "scan"
    /\ LET gs == Graphemes(seg.value) IN
          /\ CycleHasNext(gs)
          /\ LET g == CycleItem(gs, it)
                 l == ScanLen(len, g)
             IN  /\ ScanKeeps(l, Unwrap(width))
                 /\ Len(s) + Len(g) <= MemCap
                 /\ len' = l
                 /\ s' = s \o g
                 /\ it' = CyclePos(gs, it) + 1
    /\ UNCHANGED <<seg, raw, segs, pc, width, prev, ret, op>>

\* the cycle is empty or the scan closure returns None: collect ends, the
\* text is painted and returned
FillStop ==
    /\ pc = "scan"
    /\ LET gs == Graphemes(seg.value) IN
          \/ /\ ~CycleHasNext(gs)
             /\ UNCHANGED <<len, it>>
          \/ /\ CycleHasNext(gs)
             /\ LET g == CycleItem(gs, it)
                    l == ScanLen(len, g)
                IN  /\ ~ScanKeeps(l, Unwrap(width))
                    /\ len' = l
                    /\ it' = CyclePos(gs, it) + 1
    /\ ret' = Some(Styled(seg, s, prev))
    /\ pc' = "done"
    /\ UNCHANGED <<seg, raw, segs, width, prev, s, op>>

\* the collected String cannot grow any further: the allocation fails and the
\* process aborts without a result
FillAbort ==
    /\ pc = "scan"
    /\ LET gs == Graphemes(seg.value) IN
          /\ CycleHasNext(gs)
          /\ LET g == CycleItem(gs, it)
                 l == ScanLen(len, g)
             IN  /\ ScanKeeps(l, Unwrap(width))
                 /\ Len(s) + Len(g) > MemCap
    /\ pc' = "abort"
    /\ UNCHANGED <<seg, raw, segs, width, prev, it, len, s, ret, op>>

NextFill == FillVerbatim \/ FillBegin \/ FillTake \/ FillStop \/ FillAbort

SpecFill == InitFill /\ [][NextFill]_vars

----------------------------------------------------------------------------
(* Segment::from_text *)

TextChars == {"a", " ", LINE_TERMINATOR}

\* str::split(LINE_TERMINATOR): the pieces between the matches, in order; the
\* piece after the last match is yielded even when it is empty
RECURSIVE SplitFrom(_, _, _, _, _)
SplitFrom(str, sep, start, i, acc) ==
    IF i > Len(str) THEN Append(acc, SubSeq(str, start, Len(str)))
    ELSE IF str[i] = sep
         THEN SplitFrom(str, sep, i + 1, i + 1, Append(acc, SubSeq(str, start, i - 1)))
         ELSE SplitFrom(str, sep, start, i + 1, acc)

\* mutant: a trailing empty piece is dropped, as str::split_terminator does
Split_Terminator(str, sep) ==
    LET all == SplitFrom(str, sep, 1, 1, << >>)
    IN  IF all[Len(all)] = << >> THEN SubSeq(all, 1, Len(all) - 1) ELSE all

Split(str, sep) == SplitFrom(str, sep, 1, 1, << >>)

\* mutant: the LineTerm pushed without the is_empty test
PushPiece_Always(acc, style, piece) ==
    Append(Append(acc, LineTerm), TextSegment(style, piece))

\* the for_each closure: a LineTerm before every piece but the first, then the
\* piece as a Text segment
PushPiece(acc, style, piece) ==
    LET withTerm == IF acc # << >> THEN Append(acc, LineTerm) ELSE acc
    IN  Append(withTerm, TextSegment(style, piece))

RECURSIVE ForEachPiece(_, _, _)
ForEachPiece(pieces, style, acc) ==
    IF pieces = << >> THEN acc
    ELSE ForEachPiece(Tail(pieces), style, PushPiece(acc, style, Head(pieces)))

FromText(style, value) == ForEachPiece(Split(value, LINE_TERMINATOR), style, << >>)

\* Segment::value
Value(sg) == IF sg.kind = "LineTerm" THEN LINE_TERMINATOR_STRING ELSE sg.value

InitText ==
    /\ raw \in SeqsUpTo(TextChars, MaxRaw)
    /\ seg = LineTerm
    /\ segs = << >>
    /\ pc = "idle"
    /\ width = None
    /\ prev = None
    /\ it = 1
    /\ len = 0
    /\ s = << >>
    /\ ret = None
    /\ op = NoCall

CallFromText ==
    /\ pc = "idle"
    /\ \E st \in OptStyleInputs :
          /\ segs' = FromText(st, raw)
          /\ op' = [name |-> "from_text", style |-> st]
    /\ pc' = "done"
    /\ UNCHANGED <<seg, raw, width, prev, it, len, s, ret>>

NextText == CallFromText

SpecText == InitText /\ [][NextText]_vars

----------------------------------------------------------------------------
(* Segment::separator and the operations on one segment *)

SepChars == {">", "l", "r"}

\* longest text handed to Segment::separator
MaxSep == 3

\* str::ends_with("l")
EndsWith(str, c) == str # << >> /\ str[Len(str)] = c

\* str::trim_end_matches(['l', 'r'])
RECURSIVE TrimEndMatches(_, _)
TrimEndMatches(str, cs) ==
    IF str # << >> /\ str[Len(str)] \in cs
    THEN TrimEndMatches(SubSeq(str, 1, Len(str) - 1), cs)
    ELSE str

\* mutant: one trailing marker stripped, as str::strip_suffix does
Separator_StripOne(style, value) ==
    LET left == EndsWith(value, "l")
        symbol == IF value # << >> /\ value[Len(value)] \in {"l", "r"}
                  THEN SubSeq(value, 1, Len(value) - 1) ELSE value
    IN  SeparatorSegment(style, symbol, left)

\* Segment::separator
Separator(style, value) ==
    LET left == EndsWith(value, "l")
        symbol == TrimEndMatches(value, {"l", "r"})
    IN  SeparatorSegment(style, symbol, left)

\* the style field of a segment; LineTerm has none
StyleField(sg) == IF sg.kind = "LineTerm" THEN None ELSE sg.style

\* Segment::style
StyleOf(sg) ==
    IF sg.kind = "LineTerm" THEN None
    ELSE IF IsSome(sg.style) THEN Some(ToAnsiStyle(Unwrap(sg.style), None)) ELSE None

\* mutant: the backfill never stores the fallback
SetStyleIfEmpty_Never(sg, style) == sg

\* mutant: is_some tested in place of is_none
SetStyleIfEmpty_WhenSet(sg, style) ==
    IF sg.kind = "LineTerm" THEN sg
    ELSE IF IsSome(sg.style) THEN [sg EXCEPT !.style = style] ELSE sg

\* mutant: the fallback stored without the is_none test
SetStyleIfEmpty_Overwrite(sg, style) ==
    IF sg.kind = "LineTerm" THEN sg ELSE [sg EXCEPT !.style = style]

\* Segment::set_style_if_empty
SetStyleIfEmpty(sg, style) ==
    IF sg.kind = "LineTerm" THEN sg
    ELSE IF IsNone(sg.style) THEN [sg EXCEPT !.style = style] ELSE sg

\* SeparatorSegment::set_style
SetStyle(ss, style) ==
    [ss EXCEPT !.style = IF IsSome(style) THEN Some(StyleFromAnsi(Unwrap(style))) ELSE None]

\* mutant: the two neighbours' backgrounds swapped
DeriveStyle_Swapped(ss, p, n) ==
    CASE IsSome(p) /\ IsSome(n) ->
            [AnsiDefault EXCEPT !.foreground = Unwrap(p).background,
                                !.background = Unwrap(n).background]
      [] IsSome(p) /\ IsNone(n) ->
            [AnsiDefault EXCEPT !.foreground = Unwrap(p).background]
      [] IsNone(p) /\ IsSome(n) ->
            [AnsiDefault EXCEPT !.foreground = Unwrap(n).background]
      [] OTHER -> AnsiDefault

\* SeparatorSegment::derive_style
DeriveStyle(ss, p, n) ==
    CASE IsSome(p) /\ IsSome(n) ->
            [AnsiDefault EXCEPT !.foreground = Unwrap(n).background,
                                !.background = Unwrap(p).background]
      [] IsSome(p) /\ IsNone(n) ->
            [AnsiDefault EXCEPT !.foreground = Unwrap(p).background]
      [] IsNone(p) /\ IsSome(n) ->
            [AnsiDefault EXCEPT !.foreground = Unwrap(n).background]
      [] OTHER -> AnsiDefault

\* SeparatorSegment::is_left
IsLeft(ss) == ss.left

\* Segment::ansi_string
AnsiString(sg, p) ==
    IF sg.kind = "LineTerm" THEN AnsiStringFrom(LINE_TERMINATOR_STRING)
    ELSE Styled(sg, sg.value, p)

\* Segment::width_graphemes
WidthGraphemes(sg) ==
    IF sg.kind = "LineTerm" THEN 0 ELSE StrWidthGraphemes(sg.value)

\* Segment::is_linebreak
IsLinebreak(sg) == sg.kind = "LineTerm"

\* the styles handed to SeparatorSegment::set_style
AnsiInputs == {None, Some(BlueBold), Some(RedOnBlue)}

Init ==
    /\ seg = LineTerm
    /\ raw = << >>
    /\ segs = << >>
    /\ pc = "new"
    /\ width = None
    /\ prev = None
    /\ it = 1
    /\ len = 0
    /\ s = << >>
    /\ ret = None
    /\ op = NoCall

Idle == UNCHANGED <<segs, width, prev, it, len, s>>

\* one of the segments of Segment::from_text(st, str)
NewFromText ==
    /\ pc = "new"
    /\ \E st \in OptStyleInputs, str \in SeqsUpTo(TextChars, MaxRaw) :
          \E k \in 1..Len(FromText(st, str)) :
             /\ seg' = FromText(st, str)[k]
             /\ raw' = str
    /\ pc' = "ready"
    /\ op' = [name |-> "from_text"]
    /\ ret' = None
    /\ Idle

NewFill ==
    /\ pc = "new"
    /\ \E st \in OptStyleInputs, str \in SeqsUpTo(FillChars, MaxLen) :
          /\ seg' = Fill(st, str)
          /\ raw' = str
    /\ pc' = "ready"
    /\ op' = [name |-> "fill"]
    /\ ret' = None
    /\ Idle

NewSeparator ==
    /\ pc = "new"
    /\ \E st \in OptStyleInputs, str \in SeqsUpTo(SepChars, MaxSep) :
          /\ seg' = Separator(st, str)
          /\ raw' = str
    /\ pc' = "ready"
    /\ op' = [name |-> "separator"]
    /\ ret' = None
    /\ Idle

CallSetStyleIfEmpty ==
    /\ pc = "ready"
    /\ \E f \in OptStyleInputs :
          /\ seg' = SetStyleIfEmpty(seg, f)
          /\ op' = [name |-> "set_style_if_empty", arg |-> f, before |-> seg,
                    prior |-> IF op.name = "set_style_if_empty"
                              THEN Some(op.arg) ELSE None]
    /\ ret' = None
    /\ UNCHANGED <<raw, pc>>
    /\ Idle

CallSetStyle ==
    /\ pc = "ready"
    /\ seg.kind = "Separator"
    /\ \E a \in AnsiInputs :
          /\ seg' = SetStyle(seg, a)
          /\ op' = [name |-> "set_style", arg |-> a, before |-> seg]
    /\ ret' = None
    /\ UNCHANGED <<raw, pc>>
    /\ Idle

CallDeriveStyle ==
    /\ pc = "ready"
    /\ seg.kind = "Separator"
    /\ \E p \in OptAnsi, n \in OptAnsi :
          /\ ret' = Some(DeriveStyle(seg, p, n))
          /\ op' = [name |-> "derive_style", prev |-> p, next |-> n]
    /\ pc' = "returned"
    /\ UNCHANGED <<seg, raw>>
    /\ Idle

CallIsLeft ==
    /\ pc = "ready"
    /\ seg.kind = "Separator"
    /\ ret' = Some(IsLeft(seg))
    /\ op' = [name |-> "is_left"]
    /\ pc' = "returned"
    /\ UNCHANGED <<seg, raw>>
    /\ Idle

CallStyle ==
    /\ pc = "ready"
    /\ ret' = Some(StyleOf(seg))
    /\ op' = [name |-> "style"]
    /\ pc' = "returned"
    /\ UNCHANGED <<seg, raw>>
    /\ Idle

CallValue ==
    /\ pc = "ready"
    /\ ret' = Some(Value(seg))
    /\ op' = [name |-> "value"]
    /\ pc' = "returned"
    /\ UNCHANGED <<seg, raw>>
    /\ Idle

CallAnsiString ==
    /\ pc = "ready"
    /\ \E p \in PrevInputs :
          /\ ret' = Some(AnsiString(seg, p))
          /\ op' = [name |-> "ansi_string", prev |-> p]
    /\ pc' = "returned"
    /\ UNCHANGED <<seg, raw>>
    /\ Idle

CallWidthGraphemes ==
    /\ pc = "ready"
    /\ ret' = Some(WidthGraphemes(seg))
    /\ op' = [name |-> "width_graphemes"]
    /\ pc' = "returned"
    /\ UNCHANGED <<seg, raw>>
    /\ Idle

CallIsLinebreak ==
    /\ pc = "ready"
    /\ ret' = Some(IsLinebreak(seg))
    /\ op' = [name |-> "is_linebreak"]
    /\ pc' = "returned"
    /\ UNCHANGED <<seg, raw>>
    /\ Idle

\* the caller is done with the returned value
DropResult ==
    /\ pc = "returned"
    /\ pc' = "ready"
    /\ ret' = None
    /\ op' = NoCall
    /\ UNCHANGED <<seg, raw>>
    /\ Idle

Next ==
    \/ NewFromText \/ NewFill \/ NewSeparator
    \/ CallSetStyleIfEmpty \/ CallSetStyle \/ CallDeriveStyle \/ CallIsLeft
    \/ CallStyle \/ CallValue \/ CallAnsiString \/ CallWidthGraphemes
    \/ CallIsLinebreak \/ DropResult

Spec == Init /\ [][Next]_vars

----------------------------------------------------------------------------
(* Properties of FillSegment::ansi_string (SpecFill) *)

\* the first n clusters of the infinite repetition of a non-empty pattern
CycleTake(gs, n) == [k \in 1..n |-> gs[((k - 1) % Len(gs)) + 1]]

\* text is the longest prefix of the cycle, in whole clusters, no wider than w
LongestFit(gs, w, text) ==
    \E n \in 0..MemCap :
       /\ text = Flatten(CycleTake(gs, n))
       /\ SumWidths(CycleTake(gs, n)) <= w
       /\ SumWidths(CycleTake(gs, n + 1)) > w

\* the leading clusters of zero display width
RECURSIVE LeadingZeroWidth(_)
LeadingZeroWidth(gs) ==
    IF gs # << >> /\ GraphemeWidth(Head(gs)) = 0
    THEN <<Head(gs)>> \o LeadingZeroWidth(Tail(gs))
    ELSE << >>

RetText == Unwrap(ret).text

\* a call with a target width has ended, with or without a result
FillCallEnded == pc \in {"done", "abort"} /\ IsSome(width)

\* C1: for every non-empty pattern and every width w, ansi_string(Some(w), _)
\* produces the longest prefix of the pattern's infinite repetition, in whole
\* clusters, whose display width is at most w.
C1_FillLongestPrefix ==
    (FillCallEnded /\ seg.value # << >>) =>
        /\ pc = "done"
        /\ LongestFit(Graphemes(seg.value), Unwrap(width), RetText)

\* What the scan does establish: whenever a call on a non-empty pattern
\* returns, its text is that longest prefix.
FillLongestPrefixWhenReturned ==
    (pc = "done" /\ IsSome(width) /\ seg.value # << >>) =>
        /\ LongestFit(Graphemes(seg.value), Unwrap(width), RetText)
        /\ StrWidthGraphemes(RetText) <= Unwrap(width)

\* C2: ansi_string(Some(w), _) returns a result for every pattern and every
\* width; no call ends without one.
C2_FillReturns == FillCallEnded => pc = "done" /\ IsSome(ret)

----------------------------------------------------------------------------
(* Properties of Segment::from_text (SpecText) *)

Values(ss) == [i \in 1..Len(ss) |-> Value(ss[i])]
CountKind(ss, kind) == Cardinality({i \in 1..Len(ss) : ss[i].kind = kind})
HasTerminator(str) == \E i \in 1..Len(str) : str[i] = LINE_TERMINATOR

\* C4: the values of the segments of from_text(style, s), concatenated in
\* order with "\n" for every LineTerm, are exactly s.
C4_FromTextRoundTrip ==
    pc = "done" => Flatten(Values(segs)) = raw

C4_Witness ==
    /\ pc = "done"
    /\ raw = <<LINE_TERMINATOR, "a", LINE_TERMINATOR, LINE_TERMINATOR>>
    /\ Len(segs) = 7

\* C5: from_text returns a non-empty sequence that starts and ends with a
\* Text segment and strictly alternates Text and LineTerm, so it holds one
\* LineTerm fewer than Text segments; no Text value contains the terminator;
\* a string without terminator gives exactly one Text segment.
C5_FromTextAlternates ==
    pc = "done" =>
        /\ Len(segs) >= 1
        /\ Len(segs) % 2 = 1
        /\ \A i \in 1..Len(segs) :
              IF i % 2 = 1
              THEN segs[i].kind = "Text" /\ ~HasTerminator(segs[i].value)
              ELSE segs[i] = LineTerm
        /\ CountKind(segs, "LineTerm") = CountKind(segs, "Text") - 1
        /\ (~HasTerminator(raw) => Len(segs) = 1 /\ segs[1].value = raw)

C5_Witness ==
    /\ pc = "done"
    /\ raw = <<"a", LINE_TERMINATOR, LINE_TERMINATOR, " ">>
    /\ Len(segs) = 5
    /\ segs[3].value = << >>

----------------------------------------------------------------------------
(* Properties of the operations on one segment (Spec) *)

Markers == {"l", "r"}

\* C6: separator(style, raw) is left-facing exactly when raw ends with 'l',
\* and stores raw without its trailing 'l'/'r' characters: a prefix of raw
\* that does not end in a marker, raw itself when raw has no trailing marker.
C6_SeparatorParse ==
    (pc # "new" /\ seg.kind = "Separator") =>
        /\ IsLeft(seg) <=> (raw # << >> /\ raw[Len(raw)] = "l")
        /\ \E k \in 0..Len(raw) :
              /\ seg.value = SubSeq(raw, 1, k)
              /\ \A i \in (k + 1)..Len(raw) : raw[i] \in Markers
              /\ k > 0 => raw[k] \notin Markers
        /\ (raw = << >> \/ raw[Len(raw)] \notin Markers) => seg.value = raw

C6_Witness ==
    /\ pc = "ready"
    /\ seg.kind = "Separator"
    /\ raw = <<">", "r", "l">>
    /\ seg.left
    /\ seg.value = <<">">>

\* C7: derive_style(prev, next) takes its foreground from next's background
\* and its background from prev's when both are present, its foreground from
\* the background of the only neighbour present, and is the default style
\* when there is none; every other attribute is default, whatever the
\* separator's own style, value and direction.
C7_DeriveStyle ==
    op.name = "derive_style" =>
        LET r == Unwrap(ret)
            p == op.prev
            n == op.next
        IN  /\ r.is_bold = FALSE
            /\ (IsSome(p) /\ IsSome(n)) =>
                  /\ r.foreground = Unwrap(n).background
                  /\ r.background = Unwrap(p).background
            /\ (IsSome(p) /\ IsNone(n)) =>
                  /\ r.foreground = Unwrap(p).background
                  /\ r.background = None
            /\ (IsNone(p) /\ IsSome(n)) =>
                  /\ r.foreground = Unwrap(n).background
                  /\ r.background = None
            /\ (IsNone(p) /\ IsNone(n)) => r = AnsiDefault

C7_Witness ==
    /\ op.name = "derive_style"
    /\ seg.left
    /\ IsSome(seg.style)
    /\ op.prev = Some(RedOnBlue)
    /\ op.next = Some([foreground |-> Some("Blue"), background |-> Some("Red"),
                       is_bold |-> TRUE])
    /\ ret = Some([foreground |-> Some("Red"), background |-> Some("Blue"),
                   is_bold |-> FALSE])

\* two calls of set_style_if_empty in a row, with different fallbacks
TwoBackfills ==
    /\ op.name = "set_style_if_empty"
    /\ IsSome(op.prior)
    /\ Unwrap(op.prior) # op.arg

\* C8 as claimed: after set_style_if_empty(f1) and then set_style_if_empty(f2),
\* f1 # f2, the style is what it was after the first call alone.
C8_SecondCallNoEffect ==
    TwoBackfills => StyleField(seg) = StyleField(op.before)

\* C8, amended: the second call has no effect when the segment is a LineTerm
\* or has a style after the first call (f1 is a style, or the segment had
\* one); when the segment is still without style after the first call, f1
\* was None and the second call stores f2.
C8_FirstStoredStyleWins ==
    TwoBackfills =>
        IF op.before.kind = "LineTerm" \/ IsSome(StyleField(op.before))
        THEN seg = op.before
        ELSE /\ Unwrap(op.prior) = None
             /\ StyleField(seg) = op.arg

C8_Witness ==
    /\ TwoBackfills
    /\ seg.kind = "Text"
    /\ Unwrap(op.prior) = None
    /\ IsNone(StyleField(op.before))
    /\ StyleField(seg) = Some(StyleFromAnsi(BlueBold))

\* C9: set_style_if_empty leaves a style that is set as it is, changes
\* nothing of a LineTerm (whose style() stays None), and never changes the
\* variant, the value or the direction of the segment.
C9_BackfillKeepsExplicitStyle ==
    op.name = "set_style_if_empty" =>
        LET b == op.before IN
        /\ seg.kind = b.kind
        /\ Value(seg) = Value(b)
        /\ b.kind = "Separator" => IsLeft(seg) = IsLeft(b)
        /\ b.kind = "LineTerm" => seg = LineTerm /\ StyleOf(seg) = None
        /\ IsSome(StyleField(b)) => StyleField(seg) = StyleField(b)

C9_Witness ==
    /\ op.name = "set_style_if_empty"
    /\ op.before.kind = "Separator"
    /\ op.before.style = Some(StyleFromAnsi(RedOnBlue))
    /\ op.arg = Some(StyleFromAnsi(BlueBold))
    /\ seg = op.before

\* the operations that only read the segment
ReadOnlyOps ==
    {"derive_style", "is_left", "style", "value", "ansi_string",
     "width_graphemes", "is_linebreak"}

\* variant, value and direction are kept by the step
KeepsShape ==
    /\ seg'.kind = seg.kind
    /\ Value(seg') = Value(seg)
    /\ seg.kind = "Separator" => seg'.left = seg.left

\* the step is a call of one of the read-only operations
ReadOnlyCall == pc = "ready" /\ pc' = "returned" /\ op'.name \in ReadOnlyOps

\* C10 as claimed: once constructed, a segment keeps its value and direction,
\* reading operations change nothing, and the style changes only from unset
\* to set, never once it is set.
C10_OnlyBackfillChangesStyle ==
    [][ pc # "new" =>
          /\ KeepsShape
          /\ ReadOnlyCall => seg' = seg
          /\ StyleField(seg') # StyleField(seg) =>
                IsNone(StyleField(seg)) /\ IsSome(StyleField(seg')) ]_vars

\* C10, amended: value and direction never change and reading operations
\* change nothing; the style changes from unset to set, and otherwise only
\* by SeparatorSegment::set_style, which replaces or clears the style of a
\* separator whether or not it is set.  The style of a Text, Fill or LineTerm
\* segment is never changed or cleared once set.
C10_OnlySetStyleOverrides ==
    [][ pc # "new" =>
          /\ KeepsShape
          /\ ReadOnlyCall => seg' = seg
          /\ StyleField(seg') # StyleField(seg) =>
                \/ IsNone(StyleField(seg)) /\ IsSome(StyleField(seg'))
                \/ seg.kind = "Separator" /\ op'.name = "set_style" ]_vars

C10_Witness ==
    /\ op.name = "set_style"
    /\ seg.kind = "Separator"
    /\ op.before.style = Some(StyleFromAnsi(RedOnBlue))
    /\ op.arg = None
    /\ seg.style = None

====
